---- MODULE Spec2Model ----
(***************************************************************************)
(* EcoWaste-AI, src/components/Scan_or_Upload/Part2.tsx.                   *)
(*                                                                         *)
(* The module models                                                       *)
(*   - getWasteDetails, the keyword-weighted scoring of the predictions    *)
(*     (specification SpecClassify), with the numbers of the code: IEEE    *)
(*     754 doubles, added with round-to-nearest-even;                      *)
(*   - retryFetch and the Part2 component around it: runInference, the     *)
(*     camera and file handlers and the history (specification Spec).      *)
(***************************************************************************)
EXTENDS Integers, Sequences, FiniteSets, TLC

(***************************************************************************)
(* Strings: String.prototype.toLowerCase, trim and includes.               *)
(***************************************************************************)
UpperChars == "ABCDEFGHIJKLMNOPQRSTUVWXYZ"

LowerChars == "abcdefghijklmnopqrstuvwxyz"

LowerChar(c) ==
    IF \E i \in 1..Len(UpperChars) : SubSeq(UpperChars, i, i) = c
    THEN LET i == CHOOSE j \in 1..Len(UpperChars) : SubSeq(UpperChars, j, j) = c
         IN  SubSeq(LowerChars, i, i)
    ELSE c

RECURSIVE toLowerCase(_)
toLowerCase(s) ==
    IF Len(s) = 0 THEN s
    ELSE LowerChar(SubSeq(s, 1, 1)) \o toLowerCase(SubSeq(s, 2, Len(s)))

RECURSIVE trim(_)
trim(s) ==
    IF Len(s) = 0 THEN s
    ELSE IF SubSeq(s, 1, 1) = " " THEN trim(SubSeq(s, 2, Len(s)))
    ELSE IF SubSeq(s, Len(s), Len(s)) = " " THEN trim(SubSeq(s, 1, Len(s) - 1))
    ELSE s

includes(s, k) ==
    \E i \in 1..(Len(s) - Len(k) + 1) : SubSeq(s, i, i + Len(k) - 1) = k

(***************************************************************************)
(* Numbers.  A JavaScript number is an IEEE 754 double.  Every double the  *)
(* model meets is a multiple of 2^-56 below 16, and is written as two      *)
(* limbs: the value is (hi * 2^30 + lo) * 2^-56.  A sum is the exact sum   *)
(* rounded to the 53 significant bits of its binade, ties to even.         *)
(***************************************************************************)
LimbBase == 2^30

Dbl(h, l) == [hi |-> h, lo |-> l]

D_0    == Dbl(0, 0)                    \* 0
D_0_1  == Dbl(6710886, 429496730)      \* 0.1
D_0_2  == Dbl(13421772, 858993460)     \* 0.2
D_0_2_below == Dbl(13421772, 858993458) \* 0.19999999999999998, the double before 0.2
D_0_3  == Dbl(20132659, 214748364)     \* 0.3
D_0_5  == Dbl(33554432, 0)             \* 0.5

DGreater(a, b) == a.hi > b.hi \/ (a.hi = b.hi /\ a.lo > b.lo)

\* the spacing of the doubles of the binade of hi * 2^30 + lo, in units of 2^-56
Ulp(h) ==
    IF h < 2^23 THEN 1
    ELSE IF h < 2^24 THEN 2
    ELSE IF h < 2^25 THEN 4
    ELSE IF h < 2^26 THEN 8
    ELSE IF h < 2^27 THEN 16
    ELSE IF h < 2^28 THEN 32
    ELSE IF h < 2^29 THEN 64
    ELSE 128

Carry(h, l) == IF l >= LimbBase THEN Dbl(h + 1, l - LimbBase) ELSE Dbl(h, l)

RoundNearestEven(x) ==
    LET step == Ulp(x.hi)
        r    == x.lo % step
        down == x.lo - r
        up   == down + step
    IN  IF 2 * r < step THEN Dbl(x.hi, down)
        ELSE IF 2 * r > step THEN Carry(x.hi, up)
        ELSE IF (down \div step) % 2 = 0 THEN Dbl(x.hi, down)
        ELSE Carry(x.hi, up)

\* a + b of two doubles
DAdd(a, b) == RoundNearestEven(Carry(a.hi + b.hi, a.lo + b.lo))

(***************************************************************************)
(* The static tables.                                                      *)
(***************************************************************************)
\* an optional boolean field (special?, compostable?) is the set of its values:
\* empty when the field is absent
Undefined == {}

Bool(b) == {b}

Truthy(field) == TRUE \in field

\* null, where a string may stand
Null == "null"

\* null, where a ClassificationResult may stand
NoResult == [null |-> TRUE]

\* an argument that is null or undefined, and one that is an array
Absent == [defined |-> FALSE, items |-> <<>>]

Array(items) == [defined |-> TRUE, items |-> items]

\* the keys of KEYWORD_SCORES, in the order of the object literal
KeywordOrder ==
    <<"PlasticFilm", "Metal", "RigidPlastic", "Paper", "Glass", "Cardboard", "FoodOrganics">>

WasteCategoryKey == {KeywordOrder[i] : i \in 1..Len(KeywordOrder)}

KEYWORD_SCORES ==
    [c \in WasteCategoryKey |->
        CASE c = "PlasticFilm" ->
               <<"plastic bag", "film", "wrapping", "wrap", "grocery bag", "carrier bag",
                 "plastic sheet", "polyethylene", "shopping bag", "clear plastic">>
          [] c = "Metal" ->
               <<"metal", "steel", "aluminum", "aluminium", "tin", "can", "foil",
                 "beverage can", "utensil", "cutlery", "silverware", "cookware">>
          [] c = "RigidPlastic" ->
               <<"bottle", "container", "jug", "rigid plastic", "tub", "pet bottle",
                 "plastic bottle">>
          [] c = "Paper" ->
               <<"paper", "book", "magazine", "newspaper", "flyer", "printed paper",
                 "notebook">>
          [] c = "Glass" ->
               <<"glass", "jar", "shattered", "cup", "tumbler", "cut glass", "bottle",
                 "window">>
          [] c = "Cardboard" ->
               <<"box", "cardboard", "carton", "packaging", "paperboard", "corrugated">>
          [] c = "FoodOrganics" ->
               <<"banana", "apple", "orange", "pizza slice", "leaf", "log", "food",
                 "fruit", "vegetable", "compost", "peel">>]

WasteDetail(t, r, n, s, c) ==
    [type |-> t, recyclable |-> r, note |-> n, special |-> s, compostable |-> c]

WasteKeys ==
    {"rigid_plastic_default", "metal_default", "glass_default", "cardboard_default",
     "paper_default", "plastic_film_trash", "broken_glass_special", "organic_compost",
     "UNKNOWN_FALLBACK"}

\* mutant: the profile of broken glass marked recyclable
WASTE_MAP_RecyclableShards ==
    [k \in WasteKeys |->
        CASE k = "rigid_plastic_default" ->
               WasteDetail("Plastic (Rigid)", TRUE,
                   "Empty, rinse, and replace the cap. This is rigid plastic.",
                   Undefined, Undefined)
          [] k = "metal_default" ->
               WasteDetail("Metal", TRUE, "Rinse well and flatten if possible.",
                   Undefined, Undefined)
          [] k = "glass_default" ->
               WasteDetail("Glass", TRUE,
                   "Empty and rinse well. **Intact** glass containers are recyclable.",
                   Undefined, Undefined)
          [] k = "cardboard_default" ->
               WasteDetail("Cardboard", TRUE, "Must be flattened and dry. Remove all tape.",
                   Undefined, Undefined)
          [] k = "paper_default" ->
               WasteDetail("Paper", TRUE,
                   "Recyclable. Books, newspapers, and office paper should be clean and dry.",
                   Undefined, Undefined)
          [] k = "plastic_film_trash" ->
               WasteDetail("Miscellaneous Trash", FALSE,
                   "Plastic film/bags are NOT curbside recyclable. Use store drop-off or trash.",
                   Undefined, Undefined)
          [] k = "broken_glass_special" ->
               WasteDetail("Miscellaneous Trash", TRUE,
                   "DANGER: Broken or shattered glass is NOT recyclable curbside due to safety. **Throw it in the trash** only after safely wrapping the pieces in thick newspaper or a small box.",
                   Bool(TRUE), Undefined)
          [] k = "organic_compost" ->
               WasteDetail("Food Organics", FALSE, "Compostable/Green Bin waste.",
                   Undefined, Bool(TRUE))
          [] k = "UNKNOWN_FALLBACK" ->
               WasteDetail("Miscellaneous Trash", FALSE,
                   "Item not in the specific waste map. Defaulting to Miscellaneous Trash.",
                   Bool(FALSE), Bool(FALSE))]

WASTE_MAP ==
    [k \in WasteKeys |->
        CASE k = "rigid_plastic_default" ->
               WasteDetail("Plastic (Rigid)", TRUE,
                   "Empty, rinse, and replace the cap. This is rigid plastic.",
                   Undefined, Undefined)
          [] k = "metal_default" ->
               WasteDetail("Metal", TRUE, "Rinse well and flatten if possible.",
                   Undefined, Undefined)
          [] k = "glass_default" ->
               WasteDetail("Glass", TRUE,
                   "Empty and rinse well. **Intact** glass containers are recyclable.",
                   Undefined, Undefined)
          [] k = "cardboard_default" ->
               WasteDetail("Cardboard", TRUE, "Must be flattened and dry. Remove all tape.",
                   Undefined, Undefined)
          [] k = "paper_default" ->
               WasteDetail("Paper", TRUE,
                   "Recyclable. Books, newspapers, and office paper should be clean and dry.",
                   Undefined, Undefined)
          [] k = "plastic_film_trash" ->
               WasteDetail("Miscellaneous Trash", FALSE,
                   "Plastic film/bags are NOT curbside recyclable. Use store drop-off or trash.",
                   Undefined, Undefined)
          [] k = "broken_glass_special" ->
               WasteDetail("Miscellaneous Trash", FALSE,
                   "DANGER: Broken or shattered glass is NOT recyclable curbside due to safety. **Throw it in the trash** only after safely wrapping the pieces in thick newspaper or a small box.",
                   Bool(TRUE), Undefined)
          [] k = "organic_compost" ->
               WasteDetail("Food Organics", FALSE, "Compostable/Green Bin waste.",
                   Undefined, Bool(TRUE))
          [] k = "UNKNOWN_FALLBACK" ->
               WasteDetail("Miscellaneous Trash", FALSE,
                   "Item not in the specific waste map. Defaulting to Miscellaneous Trash.",
                   Bool(FALSE), Bool(FALSE))]

VagueContainerNote ==
    "Model was vague but identified a container type. Assuming standard rigid plastic."

VaguePaperNote ==
    "Model was vague but identified a paper product. Assuming clean and dry paper."

(***************************************************************************)
(* The predictions the model draws from: the labels and scores a response  *)
(* of the classification service may carry.                                *)
(***************************************************************************)
MaxLen == 2

Labels ==
    {"plastic bottle", "bottle", "can", "jug", "book", "box", "jar", "newspaper",
     "Shattered Glass", " broken cup ", "banana peel", "plastic bag", "sofa"}

Scores == {D_0, D_0_2_below, D_0_2}

HFPrediction == [label : Labels, score : Scores]

PredictionLists == UNION {[1..n -> HFPrediction] : n \in 0..MaxLen}

\* longer lists, of fewer predictions: responses of more than five entries
MaxLongLen == 6

LongPredictions ==
    {[label |-> "can", score |-> D_0_5], [label |-> "jug", score |-> D_0_5],
     [label |-> "sofa", score |-> D_0]}

LongLists == UNION {[1..n -> LongPredictions] : n \in 0..MaxLongLen}

(***************************************************************************)
(* getWasteDetails                                                         *)
(***************************************************************************)
\* mutant: a category is credited once for a label, however many keywords match
KeywordHitsOnce(label, category) ==
    LET cleanLabel == trim(toLowerCase(label))
        kws        == KEYWORD_SCORES[category]
    IN  IF \E i \in 1..Len(kws) : includes(cleanLabel, kws[i]) THEN 1 ELSE 0

\* the number of keywords of a category that the cleaned label includes
KeywordHitsOf(label, category) ==
    LET cleanLabel == trim(toLowerCase(label))
        kws        == KEYWORD_SCORES[category]
    IN  Cardinality({i \in 1..Len(kws) : includes(cleanLabel, kws[i])})

KeywordHits == [l \in Labels |-> [c \in WasteCategoryKey |-> KeywordHitsOf(l, c)]]

\* categoryScores[key] += (weight + 0.1), once for every keyword that matches
RECURSIVE AddHits(_, _, _)
AddHits(acc, weight, n) ==
    IF n = 0 THEN acc ELSE AddHits(DAdd(acc, DAdd(weight, D_0_1)), weight, n - 1)

SliceEnd == 5

\* mutant: the forEach runs over all the predictions
SliceAll(predictions) == predictions

\* predictions.slice(0, 5)
Slice(predictions) ==
    SubSeq(predictions, 1, IF Len(predictions) < SliceEnd THEN Len(predictions) ELSE SliceEnd)

RECURSIVE ScoreFrom(_, _, _, _)
ScoreFrom(ps, i, category, acc) ==
    IF i > Len(ps) THEN acc
    ELSE ScoreFrom(ps, i + 1, category,
             AddHits(acc, ps[i].score, KeywordHits[ps[i].label][category]))

\* the accumulators after the forEach over predictions.slice(0, 5)
CategoryScores(predictions) ==
    [c \in WasteCategoryKey |-> ScoreFrom(Slice(predictions), 1, c, D_0)]

\* the keys of categoryScores, in the order of the object literal
ScoreOrder ==
    <<"PlasticFilm", "RigidPlastic", "Metal", "Glass", "Cardboard", "Paper", "FoodOrganics">>

Threshold == D_0_3

\* mutant: >= against the running maximum, so that the last of a tie wins
BeatsOrEquals(score, maxScore) == ~DGreater(maxScore, score) /\ DGreater(score, Threshold)

\* mutant: >= against the threshold, so that an accumulator of exactly 0.3 wins
BeatsFromThreshold(score, maxScore) ==
    DGreater(score, maxScore) /\ ~DGreater(Threshold, score)

\* categoryScores[key] > maxScore && categoryScores[key] > 0.3
Beats(score, maxScore) == DGreater(score, maxScore) /\ DGreater(score, Threshold)

RECURSIVE PickWinner(_, _, _, _)
PickWinner(scores, i, maxScore, winning) ==
    IF i > Len(ScoreOrder) THEN winning
    ELSE LET key == ScoreOrder[i]
         IN  IF Beats(scores[key], maxScore)
             THEN PickWinner(scores, i + 1, scores[key], key)
             ELSE PickWinner(scores, i + 1, maxScore, winning)

WinningCategory(scores) == PickWinner(scores, 1, D_0, Null)

\* { rawLabel, ...WASTE_MAP[key] } and { rawLabel, ...WASTE_MAP[key], note }
Result(rawLabel, key) ==
    [rawLabel |-> rawLabel, type |-> WASTE_MAP[key].type,
     recyclable |-> WASTE_MAP[key].recyclable, note |-> WASTE_MAP[key].note,
     special |-> WASTE_MAP[key].special, compostable |-> WASTE_MAP[key].compostable]

ResultWithNote(rawLabel, key, note) == [Result(rawLabel, key) EXCEPT !.note = note]

SafetyOverride(lowerTopLabel) ==
    \/ includes(lowerTopLabel, "broken glass")
    \/ includes(lowerTopLabel, "shattered")
    \/ includes(lowerTopLabel, "broken cup")
    \/ includes(lowerTopLabel, "cut glass")

\* mutant: the cases of Cardboard and Paper exchanged
CategoryProfileExchanged(category) ==
    CASE category = "RigidPlastic" -> "rigid_plastic_default"
      [] category = "PlasticFilm"  -> "plastic_film_trash"
      [] category = "Metal"        -> "metal_default"
      [] category = "Cardboard"    -> "paper_default"
      [] category = "Paper"        -> "cardboard_default"
      [] category = "Glass"        -> "glass_default"
      [] category = "FoodOrganics" -> "organic_compost"

\* switch (winningCategory)
CategoryProfile(category) ==
    CASE category = "RigidPlastic" -> "rigid_plastic_default"
      [] category = "PlasticFilm"  -> "plastic_film_trash"
      [] category = "Metal"        -> "metal_default"
      [] category = "Cardboard"    -> "cardboard_default"
      [] category = "Paper"        -> "paper_default"
      [] category = "Glass"        -> "glass_default"
      [] category = "FoodOrganics" -> "organic_compost"

\* mutant: the default branch without its outer condition and its last return
NoWinnerFallbackAlwaysContainer(topRawLabel, lowerTopLabel) ==
    IF includes(lowerTopLabel, "book") \/ includes(lowerTopLabel, "newspaper")
    THEN ResultWithNote(topRawLabel, "paper_default", VaguePaperNote)
    ELSE ResultWithNote(topRawLabel, "rigid_plastic_default", VagueContainerNote)

\* the default branch of the switch
NoWinnerFallback(topRawLabel, lowerTopLabel) ==
    IF \/ includes(lowerTopLabel, "bottle")
       \/ includes(lowerTopLabel, "can")
       \/ includes(lowerTopLabel, "book")
    THEN IF includes(lowerTopLabel, "book") \/ includes(lowerTopLabel, "newspaper")
         THEN ResultWithNote(topRawLabel, "paper_default", VaguePaperNote)
         ELSE ResultWithNote(topRawLabel, "rigid_plastic_default", VagueContainerNote)
    ELSE Result(topRawLabel, "UNKNOWN_FALLBACK")

\* !predictions || predictions.length === 0
IsEmpty(predictions) == ~predictions.defined \/ Len(predictions.items) = 0

\* mutant: the switch on the winning category before the safety check
getWasteDetailsVoteFirst(predictions) ==
    IF IsEmpty(predictions) THEN Result("N/A", "UNKNOWN_FALLBACK")
    ELSE LET topRawLabel     == predictions.items[1].label
             winningCategory == WinningCategory(CategoryScores(predictions.items))
             lowerTopLabel   == toLowerCase(topRawLabel)
         IN  IF winningCategory # Null
             THEN Result(topRawLabel, CategoryProfile(winningCategory))
             ELSE IF SafetyOverride(lowerTopLabel)
             THEN Result(topRawLabel, "broken_glass_special")
             ELSE NoWinnerFallback(topRawLabel, lowerTopLabel)

\* mutant: the early return with an empty rawLabel
getWasteDetailsEmptyLabel(predictions) ==
    IF IsEmpty(predictions) THEN Result("", "UNKNOWN_FALLBACK")
    ELSE LET topRawLabel     == predictions.items[1].label
             winningCategory == WinningCategory(CategoryScores(predictions.items))
             lowerTopLabel   == toLowerCase(topRawLabel)
         IN  IF SafetyOverride(lowerTopLabel)
             THEN Result(topRawLabel, "broken_glass_special")
             ELSE IF winningCategory # Null
             THEN Result(topRawLabel, CategoryProfile(winningCategory))
             ELSE NoWinnerFallback(topRawLabel, lowerTopLabel)

getWasteDetails(predictions) ==
    IF IsEmpty(predictions) THEN Result("N/A", "UNKNOWN_FALLBACK")
    ELSE LET topRawLabel     == predictions.items[1].label
             winningCategory == WinningCategory(CategoryScores(predictions.items))
             lowerTopLabel   == toLowerCase(topRawLabel)
         IN  IF SafetyOverride(lowerTopLabel)
             THEN Result(topRawLabel, "broken_glass_special")
             ELSE IF winningCategory # Null
             THEN Result(topRawLabel, CategoryProfile(winningCategory))
             ELSE NoWinnerFallback(topRawLabel, lowerTopLabel)

(***************************************************************************)
(* The state.  The Part2 component: its useState fields, the token of the  *)
(* build, and the runInference calls in progress (req).  clock stands for  *)
(* Date.now(), runs counts the clicks on the Analyze button, completed is  *)
(* the log of the entries made by the successful calls since the history   *)
(* was last cleared, oldest first (it is read by the properties only).     *)
(* predictions and scored are the argument and the outcome of one          *)
(* getWasteDetails call taken alone (specification SpecClassify).          *)
(***************************************************************************)
VARIABLES imageFile, classification, loading, error, isCameraMode, history,
          HF_API_TOKEN, req, clock, runs, completed, predictions, scored

componentVars ==
    <<imageFile, classification, loading, error, isCameraMode, history,
      HF_API_TOKEN, req, clock, runs, completed>>

classifyVars == <<predictions, scored>>

vars == <<componentVars, classifyVars>>

(***************************************************************************)
(* getWasteDetails taken alone: every prediction list of the bounds, and   *)
(* the accumulators, the winner and the result of the call on it.          *)
(***************************************************************************)
NotCalled == [called |-> FALSE]

Classify ==
    /\ scored = NotCalled
    /\ scored' = [called          |-> TRUE,
                  scoring         |-> ~IsEmpty(predictions),
                  categoryScores  |-> CategoryScores(predictions.items),
                  winningCategory |-> WinningCategory(CategoryScores(predictions.items)),
                  result          |-> getWasteDetails(predictions)]
    /\ UNCHANGED <<predictions, componentVars>>

(***************************************************************************)
(* The messages of the code.                                               *)
(***************************************************************************)
MsgTokenMissing ==
    "Hugging Face API Token is missing. If running locally, ensure VITE_HF_TOKEN is set in your .env file. If running here, you must manually update the HF_API_TOKEN constant in the source code."

MsgBlobFailed == "Failed to create image blob from canvas."

MsgNoImage == "Please upload an image or enable camera mode before classifying."

MsgInvalidFile == "Please select a valid image file (PNG, JPG, etc.)."

Msg401 == "401 Unauthorized: Please verify your Hugging Face API token is correct."

MsgAllRetries == "Fetch failed after all retries."

MsgUnexpected ==
    "Classification failed: Received an unexpected response format from the model."

MsgUnknownInference == "An unknown error occurred during inference."

\* what the service and the browser say: the error field of a loading response,
\* the text of a failed request, of a body that is no JSON, of 'error' in null
LoadingError == "Model google/vit-base-patch16-224 is currently loading"

MsgHttpError == "HTTP error! Status: 503. Details: {}..."

MsgNetwork == "Failed to fetch"

MsgNotJson == "Unexpected token < in JSON at position 0"

MsgNotAnObject == "Cannot use 'in' operator to search for 'error' in null"

ApiError == "Internal Server Error"

MsgApiError == "Classification failed: Hugging Face API Error: " \o ApiError

InferenceFailed(errorMessage) == "Inference failed: " \o errorMessage

(***************************************************************************)
(* What the environment may answer.                                        *)
(***************************************************************************)
\* the outcome of one fetch: a 200, a 401, a non-OK response whose error says
\* the model is loading, any other non-OK response, a rejected fetch
Outcomes == {"ok", "401", "loading", "httpError", "network"}

\* the error of one failed attempt
AttemptError(outcome) ==
    CASE outcome = "401"       -> Msg401
      [] outcome = "loading"   -> LoadingError
      [] outcome = "httpError" -> MsgHttpError
      [] outcome = "network"   -> MsgNetwork

SamplePredictions ==
    { <<[label |-> "plastic bottle", score |-> D_0_2]>>,
      <<[label |-> "Shattered Glass", score |-> D_0_5],
        [label |-> "jar", score |-> D_0_5]>> }

\* the body of a 200: an array of predictions (empty or not), an object with an
\* error field, another object, a JSON value that is no object, no JSON at all
Bodies ==
    {[kind |-> "array", value |-> ps] : ps \in SamplePredictions \cup {<<>>}}
        \cup {[kind |-> k, value |-> Null] :
                 k \in {"errorObject", "otherObject", "primitive", "notJson"}}

\* what the call remembers of the body it has read
BodyName(body) ==
    IF body.kind = "array"
    THEN (IF Len(body.value) = 0 THEN "emptyArray" ELSE "array")
    ELSE body.kind

UploadedFile == "upload.png"

CapturedFile == "captured_waste_image.png"

(***************************************************************************)
(* retryFetch and runInference.  A call of runInference is a process req[r]*)
(* whose pc is the await it is suspended at:                               *)
(*   capture  await captureImage()              (the toBlob callback)      *)
(*   convert  await fileToBase64 / arrayBuffer                             *)
(*   fetch    await fetch(url, options)          in retryFetch             *)
(*   waitLoading, waitBackoff  await setTimeout  in retryFetch             *)
(*   json     await response.json()                                        *)
(* outcomes are the answers of the fetches of the call so far, waits the   *)
(* delays it has asked for, thrown the message retryFetch has raised.      *)
(***************************************************************************)
MaxInFlight == 2

Slots == 1..MaxInFlight

MaxRuns == 3

\* the clicks on Analyze where the history is to overflow
MaxLongRuns == 6

retries == 3

HistoryCap == 5

LoadingDelay == 5000

BackoffUnit == 1000

IdleReq ==
    [pc |-> "idle", fileToInfer |-> Null, i |-> 0, fetches |-> 0, outstanding |-> 0,
     outcomes |-> <<>>, waits |-> <<>>, thrown |-> Null, body |-> Null]

Free(r) == req[r].pc \in {"idle", "done"}

\* disabled={loading || (!imageFile && !isCameraMode)}
ButtonEnabled == ~loading /\ (imageFile # Null \/ isCameraMode)

\* setLoading(true); setError(''); setClassification(null); and the first await
BeginInference(r, file) ==
    /\ loading' = TRUE
    /\ error' = ""
    /\ classification' = NoResult
    /\ req' = [req EXCEPT ![r] = [IdleReq EXCEPT !.pc = "convert", !.fileToInfer = file]]

\* mutant: a catch that records no error message
CatchInferenceSilent(r, q, errorMessage) ==
    /\ UNCHANGED error
    /\ loading' = FALSE
    /\ req' = [req EXCEPT ![r] = [q EXCEPT !.pc = "done"]]

\* the catch and the finally of runInference; q is the call as it ends
CatchInference(r, q, errorMessage) ==
    /\ error' = InferenceFailed(errorMessage)
    /\ loading' = FALSE
    /\ req' = [req EXCEPT ![r] = [q EXCEPT !.pc = "done"]]

\* runInference, called by the click on the Analyze button, up to its first await
runInference(r) ==
    /\ ButtonEnabled
    /\ Free(r)
    /\ runs' = runs + 1
    /\ UNCHANGED <<history, HF_API_TOKEN, clock, classifyVars, completed>>
    /\ IF HF_API_TOKEN = ""
       THEN /\ error' = MsgTokenMissing
            /\ UNCHANGED <<imageFile, classification, loading, isCameraMode, req>>
       ELSE IF isCameraMode
       THEN /\ req' = [req EXCEPT ![r] = [IdleReq EXCEPT !.pc = "capture"]]
            /\ UNCHANGED <<imageFile, classification, loading, error, isCameraMode>>
       ELSE IF imageFile = Null
       THEN /\ error' = MsgNoImage
            /\ UNCHANGED <<imageFile, classification, loading, isCameraMode, req>>
       ELSE /\ BeginInference(r, imageFile)
            /\ UNCHANGED <<imageFile, isCameraMode>>

\* the click on the Analyze button, one of at most MaxRuns
RunInference(r) == runs < MaxRuns /\ runInference(r)

\* the toBlob callback of captureImage and what runInference does with the file
CaptureDone(r, blob) ==
    /\ req[r].pc = "capture"
    /\ isCameraMode' = FALSE
    /\ UNCHANGED <<history, HF_API_TOKEN, clock, runs, classifyVars, completed>>
    /\ IF blob
       THEN /\ imageFile' = CapturedFile
            /\ BeginInference(r, CapturedFile)
       ELSE /\ error' = MsgBlobFailed
            /\ loading' = FALSE
            /\ req' = [req EXCEPT ![r].pc = "done"]
            /\ UNCHANGED <<imageFile, classification>>

\* mutant: the loop runs while i <= retries
AttemptOffByOne(r, q, i) ==
    IF i <= retries
    THEN /\ req' = [req EXCEPT ![r] = [q EXCEPT !.pc = "fetch", !.i = i,
                                                !.fetches = @ + 1,
                                                !.outstanding = @ + 1]]
         /\ UNCHANGED <<loading, error>>
    ELSE CatchInference(r, [q EXCEPT !.i = i, !.thrown = MsgAllRetries], MsgAllRetries)

\* the for loop of retryFetch at index i: the fetch of the attempt, or, the loop
\* left, the throw after it
Attempt(r, q, i) ==
    IF i < retries
    THEN /\ req' = [req EXCEPT ![r] = [q EXCEPT !.pc = "fetch", !.i = i,
                                                !.fetches = @ + 1,
                                                !.outstanding = @ + 1]]
         /\ UNCHANGED <<loading, error>>
    ELSE CatchInference(r, [q EXCEPT !.i = i, !.thrown = MsgAllRetries], MsgAllRetries)

\* fileToBase64 and arrayBuffer have read the file, or the FileReader has failed
Converted(r, read) ==
    /\ req[r].pc = "convert"
    /\ UNCHANGED <<imageFile, classification, isCameraMode, history, HF_API_TOKEN,
                   clock, runs, classifyVars, completed>>
    /\ IF read
       THEN Attempt(r, req[r], 0)
       ELSE CatchInference(r, req[r], MsgUnknownInference)

\* the catch block of retryFetch
CatchAttempt(r, q, errorMessage) ==
    IF q.i = retries - 1
    THEN CatchInference(r, [q EXCEPT !.thrown = errorMessage], errorMessage)
    ELSE /\ req' = [req EXCEPT ![r] = [q EXCEPT !.pc = "waitBackoff",
                                                !.waits = Append(@, (2 ^ q.i) * BackoffUnit)]]
         /\ UNCHANGED <<loading, error>>

\* mutant: the wait for the loading model doubling with the attempts
LoadingRetryDoubling(r, q) ==
    /\ req' = [req EXCEPT ![r] = [q EXCEPT !.pc = "waitLoading",
                                           !.waits = Append(@, (2 ^ q.i) * LoadingDelay)]]
    /\ UNCHANGED <<loading, error>>

\* the model is loading: wait and continue
LoadingRetry(r, q) ==
    /\ req' = [req EXCEPT ![r] = [q EXCEPT !.pc = "waitLoading",
                                           !.waits = Append(@, LoadingDelay)]]
    /\ UNCHANGED <<loading, error>>

\* the fetch of the attempt is answered (or rejected), and the body of the loop runs
FetchResponds(r, outcome) ==
    /\ req[r].pc = "fetch"
    /\ UNCHANGED <<imageFile, classification, isCameraMode, history, HF_API_TOKEN,
                   clock, runs, classifyVars, completed>>
    /\ LET q == [req[r] EXCEPT !.outcomes = Append(@, outcome), !.outstanding = @ - 1]
       IN  CASE outcome = "ok" ->
                  /\ req' = [req EXCEPT ![r] = [q EXCEPT !.pc = "json"]]
                  /\ UNCHANGED <<loading, error>>
             [] outcome = "loading" -> LoadingRetry(r, q)
             [] outcome \in {"401", "httpError", "network"} ->
                  CatchAttempt(r, q, AttemptError(outcome))

\* the setTimeout of a wait fires: i++ and the loop goes on
WaitElapsed(r) ==
    /\ req[r].pc \in {"waitLoading", "waitBackoff"}
    /\ UNCHANGED <<imageFile, classification, isCameraMode, history, HF_API_TOKEN,
                   clock, runs, classifyVars, completed>>
    /\ Attempt(r, req[r], req[r].i + 1)

HistoryItem(wasteDetails, imageSrc, timestamp) ==
    [rawLabel |-> wasteDetails.rawLabel, type |-> wasteDetails.type,
     recyclable |-> wasteDetails.recyclable, note |-> wasteDetails.note,
     special |-> wasteDetails.special, compostable |-> wasteDetails.compostable,
     imageSrc |-> imageSrc, timestamp |-> timestamp]

\* mutant: the new entry in front of the whole history, nothing cut
PrependKeepAll(item, prevHistory) == <<item>> \o prevHistory

\* mutant: the new entry in front of the history the component was mounted with
\* (empty), in place of the history current at the update
PrependToMounted(item, prevHistory) == <<item>>

\* [newHistoryItem, ...prevHistory].slice(0, 5)
Prepend(item, prevHistory) ==
    LET updatedHistory == <<item>> \o prevHistory
    IN  SubSeq(updatedHistory, 1,
               IF Len(updatedHistory) < HistoryCap THEN Len(updatedHistory) ELSE HistoryCap)

\* the text of RecyclabilityStatus
RecyclabilityStatus(recyclable, special, compostable) ==
    IF Truthy(special) THEN "Special Disposal Required"
    ELSE IF recyclable THEN "Recyclable"
    ELSE IF Truthy(compostable) THEN "Compostable / Green Bin"
    ELSE "General Waste (Not Recyclable)"

\* the indicator of a HistoryCard
getIndicatorColor(item) ==
    IF Truthy(item.special) THEN "bg-red-500"
    ELSE IF item.recyclable THEN "bg-green-500"
    ELSE IF Truthy(item.compostable) THEN "bg-yellow-500"
    ELSE "bg-gray-500"

\* response.json() of the 200 is read, and runInference ends
JsonParsed(r, body) ==
    /\ req[r].pc = "json"
    /\ UNCHANGED <<imageFile, isCameraMode, HF_API_TOKEN, runs, classifyVars>>
    /\ IF body.kind = "notJson"
       THEN /\ CatchInference(r, [req[r] EXCEPT !.body = BodyName(body)], MsgNotJson)
            /\ UNCHANGED <<classification, history, clock, completed>>
       ELSE IF body.kind = "array" /\ Len(body.value) > 0
       THEN LET wasteDetails == getWasteDetails(Array(body.value))
            IN  /\ classification' = wasteDetails
                /\ history' = Prepend(HistoryItem(wasteDetails, req[r].fileToInfer, clock),
                                      history)
                /\ completed' =
                       Append(completed, HistoryItem(wasteDetails, req[r].fileToInfer, clock))
                /\ clock' = clock + 1
                /\ loading' = FALSE
                /\ req' = [req EXCEPT ![r].pc = "done", ![r].body = BodyName(body)]
                /\ UNCHANGED error
       ELSE IF body.kind = "primitive"
       THEN /\ CatchInference(r, [req[r] EXCEPT !.body = BodyName(body)], MsgNotAnObject)
            /\ UNCHANGED <<classification, history, clock, completed>>
       ELSE /\ error' = IF body.kind = "errorObject" THEN MsgApiError ELSE MsgUnexpected
            /\ loading' = FALSE
            /\ req' = [req EXCEPT ![r].pc = "done", ![r].body = BodyName(body)]
            /\ UNCHANGED <<classification, history, clock, completed>>

(***************************************************************************)
(* The handlers of the user's actions.                                     *)
(***************************************************************************)
\* the Use Camera button, shown while the camera is off
HandleStartCameraMode ==
    /\ ~isCameraMode
    /\ error' = ""
    /\ imageFile' = Null
    /\ classification' = NoResult
    /\ isCameraMode' = TRUE
    /\ UNCHANGED <<loading, history, HF_API_TOKEN, req, clock, runs, classifyVars, completed>>

\* the Close Camera button: setIsCameraMode(false)
CloseCamera ==
    /\ isCameraMode
    /\ isCameraMode' = FALSE
    /\ UNCHANGED <<imageFile, classification, loading, error, history, HF_API_TOKEN,
                   req, clock, runs, classifyVars, completed>>

\* the file input, shown while the camera is off; image: the file chosen is an image
HandleFileChange(image) ==
    /\ ~isCameraMode
    /\ isCameraMode' = FALSE
    /\ IF image
       THEN /\ imageFile' = UploadedFile
            /\ classification' = NoResult
            /\ error' = ""
       ELSE /\ imageFile' = Null
            /\ error' = MsgInvalidFile
            /\ UNCHANGED classification
    /\ UNCHANGED <<loading, history, HF_API_TOKEN, req, clock, runs, classifyVars, completed>>

\* the Clear History button, shown while the history is not empty
ClearHistory ==
    /\ Len(history) > 0
    /\ history' = <<>>
    /\ completed' = <<>>
    /\ UNCHANGED <<imageFile, classification, loading, error, isCameraMode,
                   HF_API_TOKEN, req, clock, runs, classifyVars>>

(***************************************************************************)
(* The specifications.                                                     *)
(***************************************************************************)
InitComponent ==
    /\ imageFile = Null
    /\ classification = NoResult
    /\ loading = FALSE
    /\ error = ""
    /\ isCameraMode = FALSE
    /\ history = <<>>
    /\ req = [r \in Slots |-> IdleReq]
    /\ clock = 0
    /\ runs = 0
    /\ completed = <<>>

\* Spec: the component with one call of runInference at a time
Sequential == {1}

Init ==
    /\ InitComponent
    /\ HF_API_TOKEN \in {"", "hf_token"}
    /\ predictions = Absent
    /\ scored = NotCalled

Next ==
    \/ \E r \in Sequential : RunInference(r)
    \/ \E r \in Sequential, blob \in BOOLEAN : CaptureDone(r, blob)
    \/ \E r \in Sequential, read \in BOOLEAN : Converted(r, read)
    \/ \E r \in Sequential, outcome \in Outcomes : FetchResponds(r, outcome)
    \/ \E r \in Sequential : WaitElapsed(r)
    \/ \E r \in Sequential, body \in Bodies : JsonParsed(r, body)
    \/ HandleStartCameraMode
    \/ CloseCamera
    \/ \E image \in BOOLEAN : HandleFileChange(image)
    \/ ClearHistory

Spec == Init /\ [][Next]_vars

\* SpecClassify: getWasteDetails on every prediction list of the bounds
InitClassify ==
    /\ InitComponent
    /\ HF_API_TOKEN = "hf_token"
    /\ predictions \in {Array(ps) : ps \in PredictionLists} \cup {Absent}
    /\ scored = NotCalled

NextClassify == Classify

SpecClassify == InitClassify /\ [][NextClassify]_vars

\* the bodies of the 200 that hold predictions
PredictionBodies == {[kind |-> "array", value |-> ps] : ps \in SamplePredictions}

\* the click on the Analyze button, one of at most MaxLongRuns
RunInferenceLong(r) == runs < MaxLongRuns /\ runInference(r)

\* SpecHistory: uploads classified with success one after the other, and the
\* history cleared now and then
InitHistory ==
    /\ InitComponent
    /\ HF_API_TOKEN = "hf_token"
    /\ predictions = Absent
    /\ scored = NotCalled

NextHistory ==
    \/ \E r \in Sequential : RunInferenceLong(r)
    \/ \E r \in Sequential : Converted(r, TRUE)
    \/ \E r \in Sequential : FetchResponds(r, "ok")
    \/ \E r \in Sequential, body \in PredictionBodies : JsonParsed(r, body)
    \/ HandleFileChange(TRUE)
    \/ ClearHistory

SpecHistory == InitHistory /\ [][NextHistory]_vars

\* the click on the Analyze button that starts the call of the lowest free r
RunInferenceNext(r) ==
    /\ \A q \in Slots : q < r => ~Free(q)
    /\ RunInference(r)

\* SpecConcurrent: calls of runInference that overlap (a click on Analyze while
\* the capture of an earlier click is pending finds the button enabled), all
\* answered with predictions, in any order
NextConcurrent ==
    \/ \E r \in Slots : RunInferenceNext(r)
    \/ \E r \in Slots : CaptureDone(r, TRUE)
    \/ \E r \in Slots : Converted(r, TRUE)
    \/ \E r \in Slots : FetchResponds(r, "ok")
    \/ \E r \in Slots, body \in PredictionBodies : JsonParsed(r, body)
    \/ HandleStartCameraMode
    \/ ClearHistory

SpecConcurrent == InitHistory /\ [][NextConcurrent]_vars

\* SpecSlice: getWasteDetails on the lists of more than five predictions
InitSlice ==
    /\ InitComponent
    /\ HF_API_TOKEN = "hf_token"
    /\ predictions \in {Array(ps) : ps \in LongLists}
    /\ scored = NotCalled

SpecSlice == InitSlice /\ [][NextClassify]_vars

(***************************************************************************)
(* Properties of getWasteDetails (under SpecClassify).                     *)
(***************************************************************************)
Called == scored.called

NonEmpty == predictions.defined /\ Len(predictions.items) > 0

TopLabel == toLowerCase(predictions.items[1].label)

TopLabelSaysBroken ==
    \E k \in {"broken glass", "shattered", "broken cup", "cut glass"} : includes(TopLabel, k)

\* the fields of a result other than rawLabel and note
Fields(x) ==
    [type |-> x.type, recyclable |-> x.recyclable, special |-> x.special,
     compostable |-> x.compostable]

IsProfile(x, key) == Fields(x) = Fields(WASTE_MAP[key])

\* a result that is the profile of the key, rawLabel the first label, note unchanged
IsPlain(x, key) ==
    /\ IsProfile(x, key)
    /\ x.note = WASTE_MAP[key].note
    /\ x.rawLabel = predictions.items[1].label

\* C4: a first label that, lowercased, contains "broken glass", "shattered",
\* "broken cup" or "cut glass" gives the broken_glass_special profile (special,
\* not recyclable), whatever the predictions and whichever category wins the vote
C4_SafetyOverride ==
    (Called /\ NonEmpty /\ TopLabelSaysBroken)
        => /\ IsPlain(scored.result, "broken_glass_special")
           /\ Truthy(scored.result.special)
           /\ scored.result.recyclable = FALSE

\* C4 witness: the override has fired although Glass has won the vote
C4_Witness ==
    /\ Called /\ NonEmpty /\ TopLabelSaysBroken
    /\ scored.winningCategory = "Glass"
    /\ Truthy(scored.result.special)

PlasticBottle02 == Array(<<[label |-> "plastic bottle", score |-> D_0_2]>>)

\* C5, as claimed: for the one prediction {"plastic bottle", 0.2} the RigidPlastic
\* accumulator is 0.2 + 0.1, no category wins, and rigid_plastic_default comes from
\* the no-winner fallback, its note the vague-container message
C5_AsClaimed ==
    (Called /\ predictions = PlasticBottle02)
        => /\ scored.categoryScores["RigidPlastic"] \in {D_0_3, Dbl(20132659, 214748368)}
           /\ scored.winningCategory = Null
           /\ IsProfile(scored.result, "rigid_plastic_default")
           /\ scored.result.note = VagueContainerNote

\* C5, amended: for the one prediction {"plastic bottle", 0.2} two keywords of
\* RigidPlastic match ("bottle" and "plastic bottle"), the RigidPlastic accumulator
\* is (0.2 + 0.1) + (0.2 + 0.1) = 0.6000000000000001, Glass has 0.2 + 0.1 for
\* "bottle", RigidPlastic wins the vote, and rigid_plastic_default comes from the
\* category-to-outcome mapping with its own note
C5_Amended ==
    (Called /\ predictions = PlasticBottle02)
        => /\ scored.categoryScores["RigidPlastic"] = Dbl(40265318, 429496736)
           /\ scored.categoryScores["Glass"] = Dbl(20132659, 214748368)
           /\ scored.winningCategory = "RigidPlastic"
           /\ IsPlain(scored.result, "rigid_plastic_default")

C5_Witness ==
    /\ Called /\ predictions = PlasticBottle02
    /\ scored.result.type = "Plastic (Rigid)"

NoWinnerCase == Called /\ NonEmpty /\ ~TopLabelSaysBroken /\ scored.winningCategory = Null

\* C6, as claimed: with no override and no winner, a first label containing "book"
\* or "newspaper" gives paper_default with the vague-paper note, otherwise one
\* containing "bottle" or "can" gives rigid_plastic_default with the
\* vague-container note, otherwise the result is UNKNOWN_FALLBACK
C6_AsClaimed ==
    NoWinnerCase =>
        IF includes(TopLabel, "book") \/ includes(TopLabel, "newspaper")
        THEN /\ IsProfile(scored.result, "paper_default")
             /\ scored.result.note = VaguePaperNote
        ELSE IF includes(TopLabel, "bottle") \/ includes(TopLabel, "can")
        THEN /\ IsProfile(scored.result, "rigid_plastic_default")
             /\ scored.result.note = VagueContainerNote
        ELSE IsPlain(scored.result, "UNKNOWN_FALLBACK")

\* the categories whose accumulator no other exceeds
AtMaximum ==
    {c \in WasteCategoryKey :
        \A d \in WasteCategoryKey :
            ~DGreater(scored.categoryScores[d], scored.categoryScores[c])}

Tie ==
    /\ Called /\ NonEmpty
    /\ Cardinality(AtMaximum) >= 2
    /\ \A c \in AtMaximum : DGreater(scored.categoryScores[c], D_0_3)

FirstOf(order, cats) ==
    order[CHOOSE i \in 1..Len(order) :
              order[i] \in cats /\ \A j \in 1..(i - 1) : order[j] \notin cats]

\* C7, as claimed: of the categories tied at a maximum above 0.3 the winner is the
\* first in the order PlasticFilm, Metal, RigidPlastic, Paper, Glass, Cardboard,
\* FoodOrganics
C7_AsClaimed ==
    Tie => scored.winningCategory =
               FirstOf(<<"PlasticFilm", "Metal", "RigidPlastic", "Paper", "Glass",
                         "Cardboard", "FoodOrganics">>, AtMaximum)

\* C7, amended: of the categories tied at a maximum above 0.3 the winner is the
\* first in the order of the keys of categoryScores: PlasticFilm, RigidPlastic,
\* Metal, Glass, Cardboard, Paper, FoodOrganics
C7_Amended ==
    Tie => scored.winningCategory =
               FirstOf(<<"PlasticFilm", "RigidPlastic", "Metal", "Glass", "Cardboard",
                         "Paper", "FoodOrganics">>, AtMaximum)

\* C7 witness: Metal and RigidPlastic are tied and RigidPlastic has won
C7_Witness ==
    /\ Tie
    /\ AtMaximum = {"Metal", "RigidPlastic"}
    /\ scored.winningCategory = "RigidPlastic"

\* the greatest of the accumulators
MaxAccumulator == scored.categoryScores[CHOOSE c \in AtMaximum : TRUE]

\* C12: a category wins if and only if the greatest accumulator is strictly
\* greater than 0.3, and then the accumulator of the winner is the greatest; with
\* the greatest accumulator at exactly 0.3, or at 0, there is no winner
C12_Threshold ==
    (Called /\ NonEmpty) =>
        /\ (scored.winningCategory # Null) <=> DGreater(MaxAccumulator, D_0_3)
        /\ scored.winningCategory # Null
               => /\ scored.winningCategory \in WasteCategoryKey
                  /\ scored.categoryScores[scored.winningCategory] = MaxAccumulator
        /\ MaxAccumulator \in {D_0, D_0_3} => scored.winningCategory = Null

\* C12 witness: the one prediction {"can", 0.19999999999999998} has left Metal at
\* exactly 0.3, every other accumulator at 0, and no category has won
C12_Witness ==
    /\ Called /\ NonEmpty
    /\ predictions.items = <<[label |-> "can", score |-> D_0_2_below]>>
    /\ scored.categoryScores["Metal"] = D_0_3
    /\ MaxAccumulator = D_0_3
    /\ scored.winningCategory = Null

WinnerCase == Called /\ NonEmpty /\ ~TopLabelSaysBroken /\ scored.winningCategory # Null

ProfileOfCategory ==
    [RigidPlastic |-> "rigid_plastic_default", PlasticFilm |-> "plastic_film_trash",
     Metal |-> "metal_default", Cardboard |-> "cardboard_default",
     Paper |-> "paper_default", Glass |-> "glass_default",
     FoodOrganics |-> "organic_compost"]

\* C13: with no override and a winning category the result is the profile of that
\* category, its note unchanged and its rawLabel the label of the first prediction:
\* RigidPlastic rigid_plastic_default, PlasticFilm plastic_film_trash, Metal
\* metal_default, Cardboard cardboard_default, Paper paper_default, Glass
\* glass_default, FoodOrganics organic_compost
C13_CategoryOutcome ==
    WinnerCase => IsPlain(scored.result, ProfileOfCategory[scored.winningCategory])

\* C13 witness: Cardboard has won on a second prediction and the result is the
\* cardboard profile under the label of the first
C13_Witness ==
    /\ WinnerCase
    /\ Len(predictions.items) = 2
    /\ predictions.items[1].label = "sofa"
    /\ scored.winningCategory = "Cardboard"
    /\ scored.result.rawLabel = "sofa"
    /\ scored.result.type = WASTE_MAP["cardboard_default"].type

\* at most one of recyclable and compostable, and special only without recyclable
FlagsAgree(x) ==
    /\ ~(x.recyclable /\ Truthy(x.compostable))
    /\ Truthy(x.special) => ~x.recyclable

\* the entry that the history receives for the result of the call
EntryOfResult == HistoryItem(scored.result, "data:image/png;base64,x", 0)

UnknownFallbackNA ==
    [rawLabel |-> "N/A", type |-> "Miscellaneous Trash", recyclable |-> FALSE,
     note |-> "Item not in the specific waste map. Defaulting to Miscellaneous Trash.",
     special |-> {FALSE}, compostable |-> {FALSE}]

\* C9: an empty or absent prediction list gives UNKNOWN_FALLBACK with rawLabel
\* "N/A", and the scoring is not run
C9_EmptyInput ==
    (Called /\ ~NonEmpty) => (scored.result = UnknownFallbackNA /\ ~scored.scoring)

\* C9 witness: the call on an absent list has returned
C9_Witness == Called /\ ~predictions.defined /\ scored.result.rawLabel = "N/A"

FallbackMatches ==
    includes(TopLabel, "bottle") \/ includes(TopLabel, "can") \/ includes(TopLabel, "book")

\* C10: every call returns a result whose type, recyclable, compostable and special
\* are those of exactly one of the nine profiles, and it is UNKNOWN_FALLBACK when
\* the override does not fire, no category wins and the fallback heuristic does not
\* match
C10_Total ==
    Called =>
        /\ Cardinality({k \in WasteKeys : IsProfile(scored.result, k)}) = 1
        /\ (NoWinnerCase /\ ~FallbackMatches) => IsPlain(scored.result, "UNKNOWN_FALLBACK")

\* C10 witness: a list of two predictions without any signal has been classified
C10_Witness ==
    /\ NoWinnerCase /\ ~FallbackMatches
    /\ Len(predictions.items) = 2
    /\ scored.result.type = "Miscellaneous Trash"

(***************************************************************************)
(* Properties of retryFetch and runInference (under Spec).                 *)
(***************************************************************************)
Waiting(r) == req[r].pc \in {"waitLoading", "waitBackoff"}

\* C1, as claimed: a 401 is the last answer of its call: no fetch and no wait follow
\* it, and the call has failed with the authorization error
C1_AsClaimed ==
    \A r \in Slots :
        \A k \in 1..Len(req[r].outcomes) :
            req[r].outcomes[k] = "401"
                => /\ k = Len(req[r].outcomes)
                   /\ req[r].fetches = k
                   /\ Len(req[r].waits) = k - 1
                   /\ req[r].pc = "done"
                   /\ req[r].thrown =
                          "401 Unauthorized: Please verify your Hugging Face API token is correct."

Exhausted(r) ==
    /\ req[r].pc = "done"
    /\ req[r].thrown # Null
    /\ Len(req[r].outcomes) = 3

\* C2, as claimed: a call that has failed after its 3 attempts has raised the
\* message of the error of its last attempt, a model-loading answer included
C2_AsClaimed ==
    \A r \in Slots :
        Exhausted(r) => req[r].thrown = AttemptError(req[r].outcomes[3])

\* C3: a call issues at most 3 fetches, whatever the mix of loading answers and
\* other failures, and one after the other: no fetch is outstanding when the next
\* is issued, none during a wait, and a fetch is issued only as the first of the
\* call or when a wait has elapsed
C3_AttemptBudget ==
    /\ [](\A r \in Slots :
             /\ req[r].fetches <= 3
             /\ req[r].outstanding \in {0, 1}
             /\ req[r].fetches = Len(req[r].outcomes) + req[r].outstanding
             /\ Waiting(r) => req[r].outstanding = 0)
    /\ [][\A r \in Slots :
             (req'[r].fetches > req[r].fetches /\ req[r].fetches > 0)
                 => /\ Waiting(r)
                    /\ req[r].outstanding = 0
                    /\ req'[r].fetches = req[r].fetches + 1
                    /\ Len(req[r].waits) = req[r].fetches]_vars

\* C3 witness: the third fetch of a call is out, after a loading answer and a
\* network failure
C3_Witness ==
    \E r \in Slots :
        /\ req[r].fetches = 3
        /\ req[r].outstanding = 1
        /\ req[r].outcomes = <<"loading", "network">>

\* C8, as claimed: when the body of the 200 is an empty array, runInference ends
\* with the UNKNOWN_FALLBACK verdict shown and no error message
C8_AsClaimed ==
    [][\A r \in Slots :
          (req[r].pc = "json" /\ req'[r].pc = "done" /\ req'[r].body = "emptyArray")
              => (error' = "" /\ classification' = UnknownFallbackNA)]_vars

\* C17, as claimed: a loading answer is followed by a wait that starts at 5
\* seconds, and of two consecutive loading answers the wait after the second is
\* longer than the wait after the first
C17_AsClaimed ==
    \A r \in Slots :
        \A k \in 1..Len(req[r].waits) :
            req[r].outcomes[k] = "loading"
                => /\ (k = 1 => req[r].waits[k] = 5000)
                   /\ (k > 1 /\ req[r].outcomes[k - 1] = "loading")
                          => req[r].waits[k] > req[r].waits[k - 1]

\* C17, amended: every loading answer is followed by a wait of 5 seconds, the same
\* after each; when the wait has elapsed a new fetch is issued if the answer was
\* to the first or second attempt, and after the third the call fails with
\* "Fetch failed after all retries."
C17_Amended ==
    /\ [](\A r \in Slots :
             \A k \in 1..Len(req[r].outcomes) :
                 req[r].outcomes[k] = "loading"
                     => /\ Len(req[r].waits) >= k
                        /\ req[r].waits[k] = 5000)
    /\ [][\A r \in Slots :
             (req[r].pc = "waitLoading" /\ req'[r].pc # "waitLoading")
                 => IF Len(req[r].outcomes) < 3
                    THEN /\ req'[r].pc = "fetch"
                         /\ req'[r].fetches = req[r].fetches + 1
                    ELSE /\ req'[r].pc = "done"
                         /\ req'[r].fetches = req[r].fetches
                         /\ req'[r].thrown = "Fetch failed after all retries."]_vars

\* C17 witness: the wait after a second consecutive loading answer is on, as long
\* as the wait after the first
C17_Witness ==
    \E r \in Slots :
        /\ req[r].pc = "waitLoading"
        /\ req[r].outcomes = <<"loading", "loading">>
        /\ req[r].waits = <<5000, 5000>>

\* the bodies of a 200 that are neither an array nor an object with an error field
Malformed == {"otherObject", "primitive", "notJson"}

C19_AsClaimed ==
    [][(loading /\ ~loading')
          => \/ classification' # NoResult /\ error' = ""
             \/ classification' = NoResult /\ error' # ""]_vars

\* C20, as claimed: a verdict and an error message are never present together
C20_AsClaimed == ~(classification # NoResult /\ error # "")

(***************************************************************************)
(* Properties of the history (under SpecHistory and SpecConcurrent).       *)
(***************************************************************************)
\* the n last entries of the log, or all of them if fewer, the last one first
MostRecentFirst(log, n) ==
    [i \in 1..(IF Len(log) < n THEN Len(log) ELSE n) |-> log[Len(log) + 1 - i]]

\* C14: the history never holds more than 5 entries and is the min(n, 5) most
\* recent of the n results completed since it was last cleared, the most recent
\* first: the sixth result evicts the oldest, and Clear History empties it
C14_RecentFive ==
    /\ [](/\ Len(history) <= 5
          /\ history = MostRecentFirst(completed, 5))
    /\ [][(Len(completed') = Len(completed) + 1 /\ Len(history) = 5)
             => /\ Len(history') = 5
                /\ \A i \in 1..4 : history'[i + 1] = history[i]]_vars
    /\ [][(Len(history) > 0 /\ completed' = <<>>) => history' = <<>>]_vars

\* C14 witness: six results have been completed since the last clear, the history
\* holds five, and the first completed is not among them
C14_Witness ==
    /\ Len(completed) = 6
    /\ Len(history) = 5
    /\ history[1] = completed[6]
    /\ history[5] = completed[2]
    /\ \A i \in 1..5 : history[i] # completed[1]

\* the calls of runInference that have not ended
InFlight == {r \in Slots : ~Free(r)}

\* C15: with several calls in flight completing in any order, each successful
\* completion puts its own entry, and nothing else, in front of the history
\* current at that moment and cuts the result to 5: no completed result is lost or
\* entered twice, and the head of the history is the result completed last
C15_AtomicPrepend ==
    /\ [](/\ history = MostRecentFirst(completed, 5)
          /\ completed # <<>> => history[1] = completed[Len(completed)]
          /\ \A i, j \in 1..Len(history) :
                 history[i].timestamp = history[j].timestamp => i = j)
    /\ [][\A r \in Slots :
             (req[r].pc = "json" /\ req'[r].pc = "done")
                 => /\ Len(history') = (IF Len(history) < 5 THEN Len(history) + 1 ELSE 5)
                    /\ history'[1].imageSrc = req[r].fileToInfer
                    /\ history'[1].timestamp = clock
                    /\ \A i \in 2..Len(history') : history'[i] = history[i - 1]]_vars

\* C15 witness: two calls are in flight together, the call started second has
\* completed first and its entry is the head of the history, while the call started
\* first is reading its own answer
C15_Witness ==
    /\ runs = 2
    /\ req[1].pc = "json"
    /\ req[2].pc = "done"
    /\ InFlight = {1}
    /\ Len(history) = 1
    /\ history[1] = completed[1]
    /\ history[1].rawLabel = classification.rawLabel

(***************************************************************************)
(* Properties of getWasteDetails on long lists (under SpecSlice).          *)
(***************************************************************************)
FirstFive(items) == [i \in 1..(IF Len(items) < 5 THEN Len(items) ELSE 5) |-> items[i]]

\* C11: the result of a call is the result of the call on the first 5 predictions
\* of its list: the entries at positions 6 and beyond change nothing
C11_OnlyFirstFive ==
    Called =>
        /\ scored.result = getWasteDetails(Array(FirstFive(predictions.items)))
        /\ \A other \in LongPredictions :
               Len(predictions.items) = 6
                   => scored.result =
                          getWasteDetails(Array([predictions.items EXCEPT ![6] = other]))

\* C11 witness: five predictions without signal and a sixth that alone would make
\* Metal win have been classified as UNKNOWN_FALLBACK
C11_Witness ==
    /\ Called
    /\ Len(predictions.items) = 6
    /\ \A i \in 1..5 : predictions.items[i].label = "sofa"
    /\ predictions.items[6].label = "can"
    /\ scored.winningCategory = Null
    /\ scored.result.type = "Miscellaneous Trash"

====
